---- MODULE Spec2Model ----
(***************************************************************************)
(* Model of class EM_algo (src/3_EM_Algorithm_Tutorial.ipynb, lines        *)
(* 395-464): EM for a mixture of multinomials.                             *)
(*                                                                         *)
(* Numbers.  A float is a record [t, n, d]:                                *)
(*   t = "fin"   the rational n/d (d > 0, lowest terms)                    *)
(*   t = "nan"   IEEE NaN          t = "pinf" / "ninf"   +inf / -inf       *)
(*   t = "big"   a finite number whose numerator or denominator exceeds    *)
(*               MaxMag: the model does not follow a run past it           *)
(*   t = "unset" an attribute that has not been assigned yet               *)
(* A logarithm is held as the same record, "fin" then meaning log(n/d)     *)
(* with n > 0; np.log and np.exp convert between the two readings, sums of *)
(* logarithms are products of their arguments.  Arithmetic is exact (no    *)
(* rounding, no underflow of np.exp); the IEEE special values follow       *)
(* numpy: log(0) = -inf, log(x<0) = nan, 0 * inf = nan, inf - inf = nan,   *)
(* 0/0 = nan, x/0 = inf, every comparison with nan is False, np.max        *)
(* propagates nan.  numpy only warns on these, it raises nothing.          *)
(*                                                                         *)
(* Priors are passed as Python lists, for which `prior == None` is False.  *)
(***************************************************************************)
EXTENDS Integers, Sequences, FiniteSets, TLC

\* Largest numerator/denominator the model follows.
MaxMag == 1000000000
\* max_iter is drawn from 0..MaxIterArg.
MaxIterArg == 2
\* Default number of topics (__init__, K=2).
K == 2

VARIABLES data, prior_rhos, prior_betas, rhos, betas, zs, ll, ll_history,
          dt_temp, tolerance, max_iter, count, pc, status, exc, nE, nM

vars == <<data, prior_rhos, prior_betas, rhos, betas, zs, ll, ll_history,
          dt_temp, tolerance, max_iter, count, pc, status, exc, nE, nM>>

-----------------------------------------------------------------------------
\* Floats

Fin(n, d) == [t |-> "fin", n |-> n, d |-> d]
NaN == [t |-> "nan", n |-> 0, d |-> 1]
PInf == [t |-> "pinf", n |-> 0, d |-> 1]
NInf == [t |-> "ninf", n |-> 0, d |-> 1]
Big == [t |-> "big", n |-> 0, d |-> 1]
Unset == [t |-> "unset", n |-> 0, d |-> 1]
Zero == Fin(0, 1)
One == Fin(1, 1)

Abs(x) == IF x < 0 THEN -x ELSE x

RECURSIVE GCD(_, _)
GCD(a, b) == IF b = 0 THEN a ELSE GCD(b, a % b)

\* n/d (d > 0) in lowest terms, or Big beyond MaxMag.
Norm(n, d) ==
    LET g == GCD(Abs(n), d) IN
    IF n = 0 THEN Zero
    ELSE IF Abs(n) \div g > MaxMag \/ d \div g > MaxMag THEN Big
    ELSE Fin(n \div g, d \div g)

IsZero(a) == a.t = "fin" /\ a.n = 0

\* x * y stays within MaxMag
Fits(x, y) == x = 0 \/ y = 0 \/ Abs(x) <= MaxMag \div Abs(y)

\* (n1/d1) * (n2/d2) for rationals in lowest terms, cancelling first
MulFin(n1, d1, n2, d2) ==
    LET g1 == GCD(Abs(n1), d2)
        g2 == GCD(Abs(n2), d1)
    IN IF n1 = 0 \/ n2 = 0 THEN Zero
       ELSE IF Fits(n1 \div g1, n2 \div g2) /\ Fits(d1 \div g2, d2 \div g1)
            THEN Fin((n1 \div g1) * (n2 \div g2), (d1 \div g2) * (d2 \div g1))
            ELSE Big

\* n1/d1 + n2/d2 over the least common denominator
AddFin(n1, d1, n2, d2) ==
    LET g == GCD(d1, d2)
        m1 == d2 \div g
        m2 == d1 \div g
    IN IF Fits(n1, m1) /\ Fits(n2, m2) /\ Fits(d1, m1)
       THEN Norm(n1 * m1 + n2 * m2, d1 * m1)
       ELSE Big

\* a + b on non-negative floats
Add(a, b) ==
    CASE a.t = "nan" \/ b.t = "nan" -> NaN
      [] a.t = "pinf" \/ b.t = "pinf" -> PInf
      [] a.t = "big" \/ b.t = "big" -> Big
      [] OTHER -> AddFin(a.n, a.d, b.n, b.d)

\* a * b on non-negative floats
Mul(a, b) ==
    CASE a.t = "nan" \/ b.t = "nan" -> NaN
      [] a.t = "pinf" \/ b.t = "pinf" ->
            IF IsZero(a) \/ IsZero(b) THEN NaN ELSE PInf
      [] a.t = "big" \/ b.t = "big" -> Big
      [] OTHER -> MulFin(a.n, a.d, b.n, b.d)

\* a / b on non-negative floats
Div(a, b) ==
    CASE a.t = "nan" \/ b.t = "nan" -> NaN
      [] a.t = "pinf" -> IF b.t = "pinf" THEN NaN ELSE PInf
      [] b.t = "pinf" -> Zero
      [] a.t = "big" \/ b.t = "big" -> Big
      [] b.n = 0 -> IF a.n = 0 THEN NaN ELSE PInf
      [] OTHER -> MulFin(a.n, a.d, b.d, b.n)

\* np.log: the result is a logarithm
Log(a) ==
    CASE a.t = "fin" -> IF a.n < 0 THEN NaN ELSE IF a.n = 0 THEN NInf ELSE a
      [] OTHER -> a

\* np.exp: from a logarithm back to a float
Exp(l) == IF l.t = "ninf" THEN Zero ELSE l

\* l1 + l2 on logarithms
LAdd(a, b) ==
    CASE a.t = "nan" \/ b.t = "nan" -> NaN
      [] a.t = "ninf" -> IF b.t = "pinf" THEN NaN ELSE NInf
      [] a.t = "pinf" -> IF b.t = "ninf" THEN NaN ELSE PInf
      [] b.t \in {"ninf", "pinf"} -> b
      [] a.t = "big" \/ b.t = "big" -> Big
      [] OTHER -> MulFin(a.n, a.d, b.n, b.d)

\* l1 - l2 on logarithms
LSub(a, b) ==
    CASE a.t = "nan" \/ b.t = "nan" -> NaN
      [] a.t \in {"ninf", "pinf"} -> IF b.t = a.t THEN NaN ELSE a
      [] b.t = "ninf" -> PInf
      [] b.t = "pinf" -> NInf
      [] a.t = "big" \/ b.t = "big" -> Big
      [] OTHER -> MulFin(a.n, a.d, b.d, b.n)

\* c * l for an integer count c >= 0 and a logarithm l
RECURSIVE LScale(_, _)
LScale(c, l) ==
    CASE l.t = "nan" -> NaN
      [] l.t \in {"ninf", "pinf"} -> IF c = 0 THEN NaN ELSE l
      [] c = 0 -> One
      [] l.t = "big" -> Big
      [] OTHER -> LAdd(l, LScale(c - 1, l))

\* the model cannot order a and b: one is out of range, or their
\* difference is
Unordered(a, b) ==
    /\ a.t \notin {"nan", "ninf", "pinf"}
    /\ b.t \notin {"nan", "ninf", "pinf"}
    /\ LSub(a, b).t = "big"

\* l1 < l2 on logarithms (False when either is nan), for ordered l1, l2
LLess(a, b) ==
    CASE a.t = "nan" \/ b.t = "nan" -> FALSE
      [] a.t = "ninf" -> b.t # "ninf"
      [] b.t = "pinf" -> a.t # "pinf"
      [] a.t = "pinf" \/ b.t = "ninf" -> FALSE
      [] OTHER -> LSub(a, b).n < LSub(a, b).d

\* max of two logarithms as np.max combines them: nan wins
LMax(a, b) ==
    CASE a.t = "nan" \/ b.t = "nan" -> NaN
      [] a.t = "pinf" \/ b.t = "pinf" -> PInf
      [] Unordered(a, b) -> Big
      [] OTHER -> IF LLess(a, b) THEN b ELSE a

RECURSIVE SumSeq(_)
SumSeq(s) == IF s = <<>> THEN Zero ELSE Add(Head(s), SumSeq(Tail(s)))

RECURSIVE LSumSeq(_)
LSumSeq(s) == IF s = <<>> THEN One ELSE LAdd(Head(s), LSumSeq(Tail(s)))

RECURSIVE MaxSeq(_)
MaxSeq(s) == IF Len(s) = 1 THEN s[1] ELSE LMax(Head(s), MaxSeq(Tail(s)))

HasBigRow(row) == \E i \in 1..Len(row) : row[i].t = "big"
HasBig(m) == \E i \in 1..Len(m) : HasBigRow(m[i])

-----------------------------------------------------------------------------
\* Inputs: count matrices, priors, iterate()'s arguments

D == Len(data)
V == Len(data[1])

\* Count matrices (one row per document, one column per vocabulary term).
Corpora ==
    { << <<1, 0>>, <<0, 1>> >>,
      << <<1, 1>>, <<0, 1>> >>,
      << <<2, 0>>, <<0, 1>> >>,
      << <<1, 0>>, <<1, 0>> >>,
      << <<0, 0>>, <<1, 1>> >>,
      << <<0, 0>>, <<0, 0>> >>,
      << <<2, 1>> >>,
      << <<1, 0, 1>>, <<0, 1, 0>> >>,
      << <<1, 0>>, <<0, 1>>, <<1, 1>> >> }

UniformRow(n) == [i \in 1..n |-> Norm(1, n)]
OneHot(n, j) == [i \in 1..n |-> IF i = j THEN One ELSE Zero]
Ramp(n) == [i \in 1..n |-> Norm(2 * i, n * (n + 1))]
RevRamp(n) == [i \in 1..n |-> Norm(2 * (n + 1 - i), n * (n + 1))]
OnesRow(n) == [i \in 1..n |-> One]
\* sums to 1 but has a negative entry (n >= 2)
NegRow(n) ==
    [i \in 1..n |-> IF i = 1 THEN Fin(-1, 2) ELSE IF i = n THEN Fin(3, 2) ELSE Zero]

NoPrior == [none |-> TRUE, v |-> <<>>]
Given(x) == [none |-> FALSE, v |-> x]

RhoPriors ==
    { NoPrior,
      Given(OneHot(K, 1)), Given(Ramp(K)),
      Given(OnesRow(K)), Given(NegRow(K)),
      Given(UniformRow(K - 1)), Given(UniformRow(K + 1)) }

BetaPriors(n) ==
    { NoPrior,
      Given([k \in 1..K |-> IF k = 1 THEN OneHot(n, 1) ELSE OneHot(n, n)]),
      Given([k \in 1..K |-> IF k = 1 THEN OneHot(n, 1) ELSE UniformRow(n)]),
      Given([k \in 1..K |-> UniformRow(n)]),
      Given([k \in 1..K |-> IF k = 1 THEN RevRamp(n) ELSE Ramp(n)]),
      Given([k \in 1..K |-> OnesRow(n)]),
      Given([k \in 1..K |-> IF k = 1 THEN NegRow(n) ELSE UniformRow(n)]),
      Given([k \in 1..(K - 1) |-> UniformRow(n)]),
      Given([k \in 1..K |-> UniformRow(n + 1)]) }

\* Outcomes of np.random.dirichlet(V*[1], K): K rows, each a point of the
\* open simplex.
DirichletDraws(n) ==
    { [k \in 1..K |-> IF k = 1 THEN Ramp(n) ELSE RevRamp(n)],
      [k \in 1..K |-> IF k = 1 THEN UniformRow(n) ELSE Ramp(n)] }

\* tolerance is held as a logarithm: log 1 = 0, log 9/8, log 2
Tolerances == { Fin(1, 1), Fin(9, 8), Fin(2, 1) }

-----------------------------------------------------------------------------
\* __init__

InitRhos(prior) ==
    IF prior.none THEN [k \in 1..K |-> Norm(1, K)] ELSE prior.v

InitBetas(prior, draw) ==
    IF prior.none THEN draw ELSE prior.v

Init ==
    /\ data \in Corpora
    /\ prior_rhos \in RhoPriors
    /\ prior_betas \in BetaPriors(V)
    /\ rhos = InitRhos(prior_rhos)
    /\ \E draw \in DirichletDraws(V) : betas = InitBetas(prior_betas, draw)
    /\ ll_history = <<>>
    /\ zs = <<>>
    /\ ll = Unset
    /\ dt_temp = <<>>
    /\ tolerance = Unset
    /\ max_iter = 0
    /\ count = 0
    /\ pc = "constructed"
    /\ status = "Running"
    /\ exc = "none"
    /\ nE = 0
    /\ nM = 0

-----------------------------------------------------------------------------
\* E_step

\* The exception the loop body raises at `topic`, if any: rhos[topic] and
\* betas[topic] index Python sequences, data[doc] * log(betas[topic])
\* broadcasts (equal lengths, or length 1).
FaultAt(topic) ==
    CASE Len(rhos) < topic -> "IndexError"
      [] Len(betas) < topic -> "IndexError"
      [] Len(betas[topic]) \notin {V, 1} -> "ValueError"
      [] OTHER -> "none"

EStepFault ==
    LET bad == {k \in 1..K : FaultAt(k) # "none"} IN
    IF bad = {} THEN "none"
    ELSE FaultAt(CHOOSE k \in bad : \A j \in bad : k <= j)

BetaAt(topic, v) ==
    IF Len(betas[topic]) = 1 THEN betas[topic][1] ELSE betas[topic][v]

\* dt_temp[doc,topic] = log(rhos[topic]) + (data[doc]*log(betas[topic])).sum()
DtEntry(doc, topic) ==
    LAdd(Log(rhos[topic]),
         LSumSeq([v \in 1..V |-> LScale(data[doc][v], Log(BetaAt(topic, v)))]))

DtMatrix == [doc \in 1..D |-> [topic \in 1..K |-> DtEntry(doc, topic)]]

\* complete_ll without its second term, + dt_temp.max(1).sum()
complete_ll_NoMax(dt_matrix, outer) ==
    LET n == Len(dt_matrix)
        dt_tempZ == [doc \in 1..n |->
                       [topic \in 1..Len(dt_matrix[doc]) |->
                          LSub(dt_matrix[doc][topic], MaxSeq(dt_matrix[doc]))]]
        rowsum(doc) == SumSeq([topic \in 1..Len(dt_tempZ[doc]) |->
                                 Exp(dt_tempZ[doc][topic])])
    IN LSumSeq([doc \in 1..n |-> Log(rowsum(doc))])

\* complete_ll(dt_matrix); `outer` is the enclosing E_step's dt_temp, which
\* the nested function reads for the second term.
complete_ll(dt_matrix, outer) ==
    LET n == Len(dt_matrix)
        dt_tempZ == [doc \in 1..n |->
                       [topic \in 1..Len(dt_matrix[doc]) |->
                          LSub(dt_matrix[doc][topic], MaxSeq(dt_matrix[doc]))]]
        rowsum(doc) == SumSeq([topic \in 1..Len(dt_tempZ[doc]) |->
                                 Exp(dt_tempZ[doc][topic])])
    IN LAdd(LSumSeq([doc \in 1..n |-> Log(rowsum(doc))]),
            LSumSeq([doc \in 1..Len(outer) |-> MaxSeq(outer[doc])]))

\* zs = np.exp(dt_temp) / np.exp(dt_temp).sum(1)[:,np.newaxis]
Normalize(dt) ==
    [doc \in 1..Len(dt) |->
       LET e == [topic \in 1..Len(dt[doc]) |-> Exp(dt[doc][topic])]
       IN [topic \in 1..Len(dt[doc]) |-> Div(e[topic], SumSeq(e))]]

E_step ==
    /\ pc = "E"
    /\ EStepFault = "none"
    /\ LET dt == DtMatrix
           newll == complete_ll(dt, dt)
           newzs == Normalize(dt)
       IN /\ ~HasBig(dt) /\ newll.t # "big" /\ ~HasBig(newzs)
          /\ dt_temp' = dt
          /\ ll' = newll
          /\ ll_history' = Append(ll_history, newll)
          /\ zs' = newzs
    /\ nE' = nE + 1
    /\ pc' = "M"
    /\ UNCHANGED <<data, prior_rhos, prior_betas, rhos, betas, tolerance,
                   max_iter, count, status, exc, nM>>

\* An exception in the loop body leaves E_step and iterate().
E_stepRaises ==
    /\ pc = "E"
    /\ EStepFault # "none"
    /\ exc' = EStepFault
    /\ pc' = "raised"
    /\ UNCHANGED <<data, prior_rhos, prior_betas, rhos, betas, zs, ll,
                   ll_history, dt_temp, tolerance, max_iter, count, status,
                   nE, nM>>

-----------------------------------------------------------------------------
\* M_step

\* rhos = zs.sum(0) / D
NewRhos ==
    [k \in 1..K |-> Div(SumSeq([doc \in 1..D |-> zs[doc][k]]), Fin(D, 1))]

\* betas_temp = np.dot(zs.T, data)
BetasTemp ==
    [k \in 1..K |->
       [v \in 1..V |->
          SumSeq([doc \in 1..D |-> Mul(zs[doc][k], Fin(data[doc][v], 1))])]]

\* betas = betas_temp / betas_temp.sum(1)[:,np.newaxis]
NewBetas ==
    LET bt == BetasTemp IN
    [k \in 1..K |-> [v \in 1..V |-> Div(bt[k][v], SumSeq(bt[k]))]]

M_step ==
    /\ pc = "M"
    /\ LET r == NewRhos
           b == NewBetas
       IN /\ ~HasBigRow(r) /\ ~HasBig(b)
          /\ rhos' = r
          /\ betas' = b
    /\ nM' = nM + 1
    /\ pc' = "check"
    /\ UNCHANGED <<data, prior_rhos, prior_betas, zs, ll, ll_history, dt_temp,
                   tolerance, max_iter, count, status, exc, nE>>

-----------------------------------------------------------------------------
\* iterate

IterateEnter ==
    /\ pc = "constructed"
    /\ tolerance' \in Tolerances
    /\ max_iter' \in 0..MaxIterArg
    /\ count' = 0
    /\ pc' = "E"
    /\ UNCHANGED <<data, prior_rhos, prior_betas, rhos, betas, zs, ll,
                   ll_history, dt_temp, status, exc, nE, nM>>

\* self.ll - self.ll_history[-2]
Delta == LSub(ll, ll_history[Len(ll_history) - 1])

\* the test with <= for <
BelowTolerance_Le == LLess(Delta, tolerance) \/ Delta = tolerance

\* (self.ll - self.ll_history[-2]) < tolerance
BelowTolerance == LLess(Delta, tolerance)

\* if len(self.ll_history)==1: continue
FirstPass ==
    /\ pc = "check"
    /\ Len(ll_history) = 1
    /\ pc' = "E"
    /\ UNCHANGED <<data, prior_rhos, prior_betas, rhos, betas, zs, ll,
                   ll_history, dt_temp, tolerance, max_iter, count, status,
                   exc, nE, nM>>

Converged ==
    /\ pc = "check"
    /\ Len(ll_history) # 1
    /\ ~Unordered(Delta, tolerance)
    /\ BelowTolerance
    /\ status' = "Converged"
    /\ pc' = "done"
    /\ UNCHANGED <<data, prior_rhos, prior_betas, rhos, betas, zs, ll,
                   ll_history, dt_temp, tolerance, max_iter, count, exc, nE,
                   nM>>

MaxIterationsReached ==
    /\ pc = "check"
    /\ Len(ll_history) # 1
    /\ ~Unordered(Delta, tolerance)
    /\ ~BelowTolerance
    /\ count > max_iter
    /\ status' = "MaxIterationsReached"
    /\ pc' = "done"
    /\ UNCHANGED <<data, prior_rhos, prior_betas, rhos, betas, zs, ll,
                   ll_history, dt_temp, tolerance, max_iter, count, exc, nE,
                   nM>>

\* the loop going back to M_step, without an E_step, when it continues
Continue_SkipE ==
    /\ pc = "check"
    /\ Len(ll_history) # 1
    /\ ~Unordered(Delta, tolerance)
    /\ ~BelowTolerance
    /\ ~(count > max_iter)
    /\ count' = count + 1
    /\ pc' = "M"
    /\ UNCHANGED <<data, prior_rhos, prior_betas, rhos, betas, zs, ll,
                   ll_history, dt_temp, tolerance, max_iter, status, exc, nE,
                   nM>>

Continue ==
    /\ pc = "check"
    /\ Len(ll_history) # 1
    /\ ~Unordered(Delta, tolerance)
    /\ ~BelowTolerance
    /\ ~(count > max_iter)
    /\ count' = count + 1
    /\ pc' = "E"
    /\ UNCHANGED <<data, prior_rhos, prior_betas, rhos, betas, zs, ll,
                   ll_history, dt_temp, tolerance, max_iter, status, exc, nE,
                   nM>>

Next ==
    \/ IterateEnter
    \/ E_step
    \/ E_stepRaises
    \/ M_step
    \/ FirstPass
    \/ Converged
    \/ MaxIterationsReached
    \/ Continue

Spec == Init /\ [][Next]_vars

-----------------------------------------------------------------------------
\* The stopping rule

\* trajectory[-1] - trajectory[-2], for a trajectory of two entries or more
TrajectoryDelta ==
    LSub(ll_history[Len(ll_history)], ll_history[Len(ll_history) - 1])

\* C1: a stopping-rule evaluation after the first E/M pair (trajectory of
\* length 1) always goes on to the next pair with the driver still Running;
\* at every later evaluation the driver terminates with status Converged if
\* and only if trajectory[-1] - trajectory[-2] < tolerance, whatever the
\* iteration count is (the tolerance test comes before the max_iter test).
C1_StoppingRule ==
    [][ (pc = "check" /\ pc' # "check") =>
          IF Len(ll_history) = 1
          THEN pc' = "E" /\ status' = "Running"
          ELSE (pc' = "done" /\ status' = "Converged")
                 <=> LLess(TrajectoryDelta, tolerance) ]_vars

\* A fit that went past the first pair, kept running while the gain was at
\* least the tolerance and then stopped as Converged on a finite gain, at
\* an evaluation where count > max_iter held as well.
C1_Witness ==
    /\ pc = "done" /\ status = "Converged"
    /\ Len(ll_history) >= 3
    /\ TrajectoryDelta.t = "fin"
    /\ count > max_iter

-----------------------------------------------------------------------------
\* Probability vectors

IsProb(x) == x.t = "fin" /\ 0 <= x.n /\ x.n <= x.d

\* a point of the n-simplex: n entries in [0,1] that sum to 1
IsSimplex(row, n) ==
    /\ Len(row) = n
    /\ \A i \in 1..n : IsProb(row[i])
    /\ SumSeq(row) = One

RhoShapeOK == prior_rhos.none \/ Len(prior_rhos.v) = K
BetaShapeOK ==
    \/ prior_betas.none
    \/ /\ Len(prior_betas.v) = K
       /\ \A k \in 1..K : Len(prior_betas.v[k]) = V
PriorShapeOK == RhoShapeOK /\ BetaShapeOK

RhoPriorValid == prior_rhos.none \/ IsSimplex(prior_rhos.v, K)
BetaPriorValid ==
    \/ prior_betas.none
    \/ /\ Len(prior_betas.v) = K
       /\ \A k \in 1..K : IsSimplex(prior_betas.v[k], V)
\* the fit was started from a valid Parameter State
ValidStart == RhoPriorValid /\ BetaPriorValid

-----------------------------------------------------------------------------
\* C2: with max_iter >= 1 and no tolerance hit, iterate() ends with status
\* MaxIterationsReached at the first stopping-rule evaluation at which the
\* number of completed E/M pairs exceeds max_iter, so that no fit runs more
\* than max_iter + 1 pairs.
C2_StopsAfterMaxIterPairs ==
    (/\ ValidStart /\ pc # "constructed" /\ max_iter >= 1
     /\ \A i \in 1..Len(ll_history) : ll_history[i].t = "fin") =>
        /\ nM <= max_iter + 1
        /\ (pc = "done" /\ status = "MaxIterationsReached")
              => nM = max_iter + 1

\* What iterate() does instead: `count` is first incremented at the second
\* pair, and the test is count > max_iter.
C2_CodeStopsAfter ==
    (pc = "done" /\ status = "MaxIterationsReached") => nM = max_iter + 3

\* C3: a likelihood regression (trajectory[-1] - trajectory[-2] < 0) at a
\* stopping-rule evaluation is never reported as plain Converged.
C3_NoSilentRegression ==
    (pc = "done" /\ status = "Converged") => ~LLess(TrajectoryDelta, One)

\* C4: from a valid Parameter State, after every M_step rho is a point of
\* the K-simplex and every row of beta a point of the V-simplex.
C4_SimplexAfterMStep ==
    (ValidStart /\ nM >= 1) =>
        /\ IsSimplex(rhos, K)
        /\ Len(betas) = K
        /\ \A k \in 1..K : IsSimplex(betas[k], V)

\* C5: from a valid Parameter State, after every E_step each row Z[d,.] is
\* a point of the K-simplex and Z[d,k] = exp(L[d,k]) / sum_k exp(L[d,k]) for
\* the log-weights L of that E-step.
C5_ResponsibilityRows ==
    (ValidStart /\ pc = "M") =>
        \A doc \in 1..D :
            /\ IsSimplex(zs[doc], K)
            /\ \A k \in 1..K :
                 zs[doc][k] = Div(Exp(dt_temp[doc][k]),
                                  SumSeq([j \in 1..K |-> Exp(dt_temp[doc][j])]))

\* rho and beta are finite and non-negative, of the right shape
ParamsNonNegative ==
    /\ Len(rhos) = K /\ Len(betas) = K
    /\ \A k \in 1..K :
         /\ rhos[k].t = "fin" /\ rhos[k].n >= 0
         /\ Len(betas[k]) = V
         /\ \A v \in 1..V : betas[k][v].t = "fin" /\ betas[k][v].n >= 0

\* topic k gives document doc probability zero
ZeroProbability(doc, k) ==
    \/ IsZero(rhos[k])
    \/ \E v \in 1..V : data[doc][v] > 0 /\ IsZero(betas[k][v])

\* C6: L[d,k] is -inf exactly when rho[k] = 0 or beta[k,v] = 0 for a term v
\* with count[d,v] > 0, and finite otherwise (a zero beta[k,v] on a term the
\* document does not hold contributes nothing, never nan); a row with a
\* finite L[d,k] yields a valid responsibility row, and a finite likelihood
\* when every row has one.
C6_LogWeights ==
    (ValidStart /\ ParamsNonNegative /\ pc = "M") =>
        /\ \A doc \in 1..D : \A k \in 1..K :
             /\ (dt_temp[doc][k].t = "ninf") <=> ZeroProbability(doc, k)
             /\ ~ZeroProbability(doc, k) => dt_temp[doc][k].t = "fin"
        /\ \A doc \in 1..D :
             (\E k \in 1..K : dt_temp[doc][k].t = "fin") => IsSimplex(zs[doc], K)
        /\ (\A doc \in 1..D : \E k \in 1..K : dt_temp[doc][k].t = "fin")
              => ll.t = "fin"

RowAllNInf(row) == \A k \in 1..Len(row) : row[k].t = "ninf"

\* C7: an E_step in which some document has L[d,k] = -inf for every topic
\* signals NumericalDegenerate and aborts the fit: no E_step with such a row
\* completes, appends a likelihood or publishes a responsibility matrix.
\* (dt_temp is the log-weight matrix of the last completed E_step.)
C7_DegenerateRowAborts ==
    ValidStart => \A doc \in 1..Len(dt_temp) : ~RowAllNInf(dt_temp[doc])

\* C8: an M_step in which some topic has zero responsibility-weighted word
\* count fails fast with NumericalDegenerate: no M_step completes on such
\* responsibilities and replaces beta by a matrix with a nan row.
\* (At pc = "check" zs is the matrix the M_step just consumed.)
C8_ZeroMassAborts ==
    (ValidStart /\ pc = "check") =>
        \A k \in 1..K :
            IsZero(SumSeq(BetasTemp[k])) =>
                /\ exc = "NumericalDegenerate"
                /\ \A v \in 1..V : betas[k][v].t # "nan"

\* C9: a prior of the wrong shape is rejected with InvalidShape and one
\* with a negative entry or a row not summing to 1 with
\* InvalidProbability, before any E-step; an invalid prior is never stored
\* as the Parameter State.
C9_InvalidPriorRejected ==
    /\ ~PriorShapeOK => exc = "InvalidShape"
    /\ (PriorShapeOK /\ ~ValidStart) => exc = "InvalidProbability"
    /\ ~ValidStart => nE = 0
    /\ ~RhoPriorValid => rhos # prior_rhos.v
    /\ ~BetaPriorValid => betas # prior_betas.v

-----------------------------------------------------------------------------
\* The corpus log-likelihood of a Parameter State (rho r, beta b), computed
\* document by document: L[d,k] = log r[k] + sum_v count[d,v] * log b[k,v],
\* B_d = max_k L[d,k], ll_d = B_d + log sum_k exp(L[d,k] - B_d), and the sum
\* of ll_d over d.
DocLogLik(doc, r, b) ==
    LET L == [k \in 1..K |->
                LAdd(Log(r[k]),
                     LSumSeq([v \in 1..V |-> LScale(data[doc][v], Log(b[k][v]))]))]
        B == MaxSeq(L)
    IN LAdd(B, Log(SumSeq([k \in 1..K |-> Exp(LSub(L[k], B))])))

CorpusLogLik(r, b) == LSumSeq([doc \in 1..D |-> DocLogLik(doc, r, b)])

-----------------------------------------------------------------------------
\* The responsibilities of a Parameter State (rho r, beta b):
\* Z[d,k] = exp(L[d,k]) / sum_j exp(L[d,j]) for the log-weights
\* L[d,k] = log r[k] + sum_v count[d,v] * log b[k,v].
Responsibilities(r, b) ==
    [doc \in 1..D |->
       LET L == [k \in 1..K |->
                   LAdd(Log(r[k]),
                        LSumSeq([v \in 1..V |->
                                   LScale(data[doc][v], Log(b[k][v]))]))]
           e == [k \in 1..K |-> Exp(L[k])]
       IN [k \in 1..K |-> Div(e[k], SumSeq(e))]]

\* C11: inside iterate() E_step and M_step strictly alternate, starting with
\* an E_step and ending with an M_step.  An E_step runs only when as many
\* M_steps as E_steps are done, an M_step only right after an E_step; the
\* M_step finds in zs the responsibilities of the rho/beta it is about to
\* replace and at the end of ll_history their corpus log-likelihood, builds
\* the new rho/beta from that zs and leaves zs and ll_history alone; the
\* stopping rule changes none of them.  So when iterate() ends, the numbers
\* of E_steps, of M_steps and of trajectory entries are equal, and zs and
\* the last trajectory entry are those of the Parameter State in force
\* before the final M_step.
C11_StrictAlternation ==
    /\ [](nM <= nE /\ nE <= nM + 1)
    /\ [](pc \in {"done", "raised"} => nE = nM /\ Len(ll_history) = nM)
    /\ [](pc = "done" => nM >= 1)
    /\ [][ /\ nE' = nE + 1 => nE = nM /\ nM' = nM
           /\ nM' = nM + 1 =>
                 /\ nE = nM + 1 /\ nE' = nE
                 /\ zs = Responsibilities(rhos, betas)
                 /\ ll_history[Len(ll_history)] = CorpusLogLik(rhos, betas)
                 /\ rhos' = NewRhos /\ betas' = NewBetas
                 /\ zs' = zs /\ ll_history' = ll_history
           /\ (nE' = nE /\ nM' = nM) =>
                 UNCHANGED <<rhos, betas, zs, ll_history>>
           /\ nE' \in {nE, nE + 1} /\ nM' \in {nM, nM + 1} ]_vars

\* iterate(), started from a valid Parameter State, has ended after two E/M
\* pairs or more on finite numbers, and
\* the returned zs and last trajectory entry are not the responsibilities
\* and corpus log-likelihood of the returned rho/beta.
C11_Witness ==
    /\ ValidStart
    /\ pc = "done" /\ nE = nM /\ nM >= 2 /\ Len(ll_history) = nM
    /\ ~HasBig(zs) /\ ~HasBig(Responsibilities(rhos, betas))
    /\ \A doc \in 1..D : \A k \in 1..K : zs[doc][k].t = "fin"
    /\ zs # Responsibilities(rhos, betas)
    /\ CorpusLogLik(rhos, betas).t = "fin"
    /\ ll_history[Len(ll_history)].t = "fin"
    /\ ll_history[Len(ll_history)] # CorpusLogLik(rhos, betas)

====
